---- MODULE Spec2Model ----
(***************************************************************************)
(* TrustTunnel connection-handling core.                                   *)
(*                                                                         *)
(*   Spec      one reverse-proxy connection: listen() racing the shutdown  *)
(*             notification against listen_inner(), establish_tunnel()     *)
(*             step by step, the raw exchange, the graceful shutdown       *)
(*             (lib/src/reverse_proxy.rs).                                 *)
(*   FairSpec  Spec with the fairness the timers give.                     *)
(*   SpecAuth  FileBasedAuthenticator::authenticate over an external       *)
(*             credential store and clock                                  *)
(*             (lib/src/authentication/file_based.rs).                     *)
(*                                                                         *)
(* Option<T> is a sequence of length 0 (None) or 1 (Some).  Byte strings   *)
(* are sequences of byte values.                                           *)
(***************************************************************************)
EXTENDS Integers, Sequences, FiniteSets, TLC

\* ------------------------------------------------------------------ bounds

\* Longest byte stream the backend produces on one connection.
MaxStream == 3
\* Most bytes one read from the backend returns.
MaxChunk == 2

\* ============================ reverse proxy ===============================

VARIABLES
    pc,             \* where listen() of the connection stands
    protocol,       \* codec.protocol(): the inbound protocol of the connection
    h3compat,       \* settings.reverse_proxy.h3_backward_compatibility
    workers,        \* completion guards outstanding at the shutdown coordinator
    raceWinner,     \* which branch of select! completed: none, shutdown, inner
    waitResult,     \* result of shutdown_notification.wait()
    innerResult,    \* result of listen_inner(): pending, ok, or the error kind
    gracefulCalls,  \* number of codec.graceful_shutdown() invocations
    gracefulResult, \* codec.graceful_shutdown() has completed: none, done
    firstListen,    \* outcome of the first codec.listen(): pending, request, eof, err
    request,        \* Option: the request as received from the client codec
    backendOpened,  \* a TCP connection to the backend was opened
    backendIn,      \* what was written to the backend sink, in order
    backendOut,     \* bytes the backend has still to produce
    backendRead,    \* every byte read from the backend so far, in order
    buffer,         \* the BytesMut accumulating the backend's response
    reportedVersion,\* Option: the version the backend's status line reported
    clientResponse, \* Option: the response handed to respond.send_response
    chunk,          \* the payload bytes decode_response found behind the header block
    clientSink,     \* bytes written to the raw client sink, in order
    listenIo,       \* the listen_io future: idle, pending, eof, request, err
    exch            \* the pipe.exchange future: idle, pending, ok

VARIABLES
    store,          \* the credential file: its content as the parser sees it
    clock,          \* Option: seconds since the epoch, None when unobtainable
    authSource,     \* Option: the claim of the last authenticate call
    authStatus,     \* Option: the Status the last authenticate call returned
    authFresh,      \* neither the file nor the clock changed since that call
    authFirst       \* Option: the Status of the first call made with this
                    \* claim since the file was last edited

VARIABLES
    settings,       \* the Settings select() is given: hostnames, listen protocols
    connAlpn,       \* Option: the ALPN of the last connection classified
    connSni,        \* Option: the SNI of the last connection classified
    selected,       \* Option: the io::Result<Protocol> select() returned for it
    announced       \* Option: what as_alpn() gave for the selected Protocol

VARIABLES
    coordLock,      \* context.shutdown: the connection holding the mutex, 0 if none
    outstanding,    \* the coordinator's count of completion guards alive
    connPc,         \* per connection: where its listen() stands
    connProtocol,   \* per connection: codec.protocol()
    connGraceful,   \* per connection: invocations of codec.graceful_shutdown()
    guardDrops      \* per connection: times its completion guard was dropped

cfgVars == <<protocol, h3compat>>
raceVars == <<raceWinner, waitResult, innerResult, gracefulCalls>>
reqVars == <<firstListen, request>>
backendVars == <<backendOpened, backendIn, backendOut, backendRead, buffer,
                 reportedVersion>>
clientVars == <<clientResponse, chunk, clientSink>>
exchVars == <<listenIo, exch>>
proxyVars == <<pc, cfgVars, workers, raceVars, gracefulResult, reqVars, backendVars,
               clientVars, exchVars>>
authVars == <<store, clock, authSource, authStatus, authFresh, authFirst>>
selVars == <<settings, connAlpn, connSni, selected, announced>>
coordVars == <<coordLock, outstanding, connPc, connProtocol, connGraceful, guardDrops>>
besidesProxy == <<authVars, selVars, coordVars>>
besidesAuth == <<proxyVars, selVars, coordVars>>
besidesSelect == <<proxyVars, authVars, coordVars>>
besidesCoord == <<proxyVars, authVars, selVars>>
vars == <<proxyVars, authVars, selVars, coordVars>>

\* The header injected by establish_tunnel; header names compare case-insensitively.
ORIGINAL_PROTOCOL_HEADER == "x-original-protocol"

Protocols == {"Http1", "Http2", "Http3"}

\* TunnelProtocol::to_str
ToStr(p) ==
    CASE p = "Http1" -> "HTTP1"
      [] p = "Http2" -> "HTTP2"
      [] p = "Http3" -> "HTTP3"

\* The wire version a codec of protocol p reports for a request it decodes.
CodecVersions(p) ==
    CASE p = "Http1" -> {"HTTP/1.1"}
      [] p = "Http2" -> {"HTTP/2.0"}
      [] p = "Http3" -> {"HTTP/3.0"}

Methods == {"GET", "POST"}

\* Request targets: path-and-query strings.
Uris == {"/", "/?q", "/x"}

\* http::Uri::path: the target without its query.
UriPath(uri) ==
    CASE uri = "/"   -> "/"
      [] uri = "/?q" -> "/"
      [] uri = "/x"  -> "/x"

\* Header lists a client may send: a list of <<name, value>> pairs.
ClientHeaders ==
    { <<>>,
      << <<ORIGINAL_PROTOCOL_HEADER, "HTTP2">>, <<"host", "h">>,
         <<ORIGINAL_PROTOCOL_HEADER, "spoof">> >> }

Requests(p) ==
    [version : CodecVersions(p), method : Methods, uri : Uris, headers : ClientHeaders]

RECURSIVE RemoveHeader(_, _)
RemoveHeader(headers, name) ==
    IF headers = <<>> THEN <<>>
    ELSE IF Head(headers)[1] = name THEN RemoveHeader(Tail(headers), name)
         ELSE <<Head(headers)>> \o RemoveHeader(Tail(headers), name)

\* http::HeaderMap::insert: the value replaces every value the name had.
HeaderInsert(headers, name, value) ==
    RemoveHeader(headers, name) \o << <<name, value>> >>

RECURSIVE HeaderValues(_, _)
HeaderValues(headers, name) ==
    IF headers = <<>> THEN <<>>
    ELSE (IF Head(headers)[1] = name THEN <<Head(headers)[2]>> ELSE <<>>)
         \o HeaderValues(Tail(headers), name)

\* The version rewrite of the translated request.
TranslateVersion(p, req) ==
    IF p = "Http3" THEN "HTTP/1.1" ELSE req.version

\* Mutant of TranslateMethod: the compatibility flag is not consulted.
TranslateMethodIgnoringFlag(p, compat, req) ==
    IF p = "Http3" /\ req.method = "GET" /\ UriPath(req.uri) = "/"
    THEN "CONNECT" ELSE req.method

\* The CONNECT rewrite of the translated request.
TranslateMethod(p, compat, req) ==
    IF p = "Http3" /\ compat /\ req.method = "GET" /\ UriPath(req.uri) = "/"
    THEN "CONNECT" ELSE req.method

\* Mutant of TranslateHeaders: the marker is appended (HeaderMap::append) and the
\* values the client sent stay.
TranslateHeadersAppend(p, req) ==
    req.headers \o << <<ORIGINAL_PROTOCOL_HEADER, ToStr(p)>> >>

\* The marker header of the translated request.
TranslateHeaders(p, req) ==
    HeaderInsert(req.headers, ORIGINAL_PROTOCOL_HEADER, ToStr(p))

\* request_headers as encoded for the backend (Http1 and Http3 only: Http2 is the
\* unreachable!() arm).
Translate(p, compat, req) ==
    [version |-> TranslateVersion(p, req),
     method  |-> TranslateMethod(p, compat, req),
     uri     |-> req.uri,
     headers |-> TranslateHeaders(p, req)]

\* original_version, the version written back into the response.
OriginalVersion(req) == req.version

\* ----------------------------------------------------- backend byte stream

\* Bytes of the backend stream.  Within the header block "H" is a well-formed
\* header byte, "E" ends the block and "X" is a byte no header block may hold;
\* after the first "E" every byte is payload.
Bytes == {"H", "E", "X"}

RECURSIVE SeqsUpTo(_, _)
SeqsUpTo(S, n) ==
    IF n = 0 THEN {<<>>}
    ELSE LET shorter == SeqsUpTo(S, n - 1)
         IN  shorter \cup {Append(s, b) : s \in {t \in shorter : Len(t) = n - 1}, b \in S}

BackendStreams == SeqsUpTo(Bytes, MaxStream)

\* The version the backend reports in its status line: the request it answers
\* was sent as HTTP/1.1, whatever version the client spoke.
BackendVersions == {"HTTP/1.1"}

Min(a, b) == IF a < b THEN a ELSE b

\* Index of the first "E" of buf, 0 when it has none.
RECURSIVE FirstEnd(_, _)
FirstEnd(buf, i) ==
    IF i > Len(buf) THEN 0
    ELSE IF buf[i] = "E" THEN i ELSE FirstEnd(buf, i + 1)

\* http1_codec::decode_response on the accumulated buffer.
DecodeResponse(buf) ==
    LET e == FirstEnd(buf, 1)
        hdr == IF e = 0 THEN buf ELSE SubSeq(buf, 1, e - 1)
    IN  IF \E i \in 1..Len(hdr) : hdr[i] = "X" THEN [status |-> "error"]
        ELSE IF e = 0 THEN [status |-> "partial", buffer |-> buf]
        ELSE [status |-> "complete", tail |-> SubSeq(buf, e + 1, Len(buf))]

\* ------------------------------------------------------------------ states

Establishing == {"AwaitRequest", "Connecting", "WritingRequest", "ReadingResponse",
                 "WritingTail"}

\* States in which select! is still polling both branches.
Racing == Establishing \cup {"Exchanging"}

InitProxy ==
    /\ pc = "Idle"
    /\ protocol \in Protocols
    /\ h3compat \in BOOLEAN
    /\ workers = 0
    /\ raceWinner = "none"
    /\ waitResult = "none"
    /\ innerResult = "pending"
    /\ gracefulCalls = 0
    /\ gracefulResult = "none"
    /\ firstListen = "pending"
    /\ request = <<>>
    /\ backendOpened = FALSE
    /\ backendIn = <<>>
    /\ backendOut = <<>>
    /\ backendRead = <<>>
    /\ buffer = <<>>
    /\ reportedVersion = <<>>
    /\ clientResponse = <<>>
    /\ chunk = <<>>
    /\ clientSink = <<>>
    /\ listenIo = "idle"
    /\ exch = "idle"

\* listen(), lines 21-26: the notification handler and the completion guard are
\* taken under the coordinator's lock, then select! starts both branches.
ListenStart ==
    /\ pc = "Idle"
    /\ pc' = "AwaitRequest"
    /\ workers' = workers + 1
    /\ UNCHANGED <<cfgVars, raceVars, gracefulResult, reqVars, backendVars, clientVars,
                   exchVars, besidesProxy>>

\* listen(), lines 27-41 once a branch of select! has completed: the result is
\* logged, the other branch is dropped, codec.graceful_shutdown() is invoked.
Resolve(winner, wres, ires) ==
    /\ pc' = "ShuttingDown"
    /\ raceWinner' = winner
    /\ waitResult' = wres
    /\ innerResult' = ires
    /\ gracefulCalls' = gracefulCalls + 1
    /\ UNCHANGED <<cfgVars, workers, gracefulResult, besidesProxy>>

\* listen_inner() returns r to select!.
InnerDone(r) == Resolve("inner", waitResult, r)

\* Mutant of ShutdownWins: the notification is noted but listen_inner is not
\* dropped and goes on being polled.
ShutdownWinsInnerNotDropped ==
    /\ pc \in Racing
    /\ raceWinner = "none"
    /\ raceWinner' = "shutdown"
    /\ waitResult' \in {"ok", "err"}
    /\ UNCHANGED <<pc, cfgVars, workers, innerResult, gracefulCalls, gracefulResult,
                   reqVars, backendVars, clientVars, exchVars, besidesProxy>>

\* The shutdown branch: shutdown_notification.wait() completes with Ok or Err
\* while listen_inner is suspended anywhere.
ShutdownWins ==
    /\ pc \in Racing
    /\ \E r \in {"ok", "err"} : Resolve("shutdown", r, "abandoned")
    /\ UNCHANGED <<reqVars, backendVars, clientVars, exchVars>>

\* Mutant of EstablishTimeout: the timeout covers the wait for the request only.
EstablishTimeoutFirstListenOnly ==
    /\ pc = "AwaitRequest"
    /\ InnerDone("timed_out")
    /\ UNCHANGED <<reqVars, backendVars, clientVars, exchVars>>

\* listen_inner(), lines 51-54: tokio::time::timeout around establish_tunnel fires.
EstablishTimeout ==
    /\ pc \in Establishing
    /\ InnerDone("timed_out")
    /\ UNCHANGED <<reqVars, backendVars, clientVars, exchVars>>

\* establish_tunnel(), lines 89-90: the first codec.listen() yields a request.
FirstListenRequest ==
    /\ pc = "AwaitRequest"
    /\ \E req \in Requests(protocol) : request' = <<req>>
    /\ firstListen' = "request"
    /\ pc' = "Connecting"
    /\ UNCHANGED <<cfgVars, workers, raceVars, gracefulResult, backendVars, clientVars,
                   exchVars, besidesProxy>>

\* Mutant of FirstListenEof: the early end of input is reported as an error.
FirstListenEofAsError ==
    /\ pc = "AwaitRequest"
    /\ firstListen' = "eof"
    /\ InnerDone("unexpected_eof")
    /\ UNCHANGED <<request, backendVars, clientVars, exchVars>>

\* Lines 91-94 and 61: Ok(None), "Connection closed before any request";
\* establish_tunnel returns Ok(None) and listen_inner Ok(()).
FirstListenEof ==
    /\ pc = "AwaitRequest"
    /\ firstListen' = "eof"
    /\ InnerDone("ok")
    /\ UNCHANGED <<request, backendVars, clientVars, exchVars>>

\* Line 89: Err(e) of the first codec.listen(), propagated by `?`.
FirstListenErr ==
    /\ pc = "AwaitRequest"
    /\ firstListen' = "err"
    /\ InnerDone("io")
    /\ UNCHANGED <<request, backendVars, clientVars, exchVars>>

\* Lines 98-102: connect_tcp(...)?.connect().await? fails.
ConnectErr ==
    /\ pc = "Connecting"
    /\ InnerDone("io")
    /\ UNCHANGED <<reqVars, backendVars, clientVars, exchVars>>

\* Lines 98-126: the backend connection is open; the request is translated and
\* encoded, and the write to the backend sink begins.  The bytes the backend
\* will produce on this connection are fixed here.
ConnectOk ==
    /\ pc = "Connecting"
    /\ protocol # "Http2"
    /\ backendOpened' = TRUE
    /\ backendOut' \in BackendStreams
    /\ pc' = "WritingRequest"
    /\ UNCHANGED <<cfgVars, workers, raceVars, gracefulResult, reqVars, backendIn, buffer,
                   reportedVersion, clientVars, exchVars, besidesProxy,
                   backendRead>>

\* Lines 106-108: with an Http2 codec the match reaches unreachable!() right after
\* the connect: the task panics, listen() unwinds, its locals are dropped (the
\* completion guard among them) and codec.graceful_shutdown() is never called.
ConnectPanic ==
    /\ pc = "Connecting"
    /\ protocol = "Http2"
    /\ backendOpened' = TRUE
    /\ pc' = "Panicked"
    /\ workers' = workers - 1
    /\ UNCHANGED <<cfgVars, raceVars, gracefulResult, reqVars, backendIn, backendOut,
                   buffer, reportedVersion, clientVars, exchVars, besidesProxy,
                   backendRead>>

\* Line 126: server_sink.write_all(encoded) completes.
WriteRequestOk ==
    /\ pc = "WritingRequest"
    /\ backendIn' = <<Translate(protocol, h3compat, request[1])>>
    /\ pc' = "ReadingResponse"
    /\ UNCHANGED <<cfgVars, workers, raceVars, gracefulResult, reqVars, backendOpened,
                   backendOut, buffer, reportedVersion, clientVars, exchVars,
                   besidesProxy,
                   backendRead>>

\* Line 126: server_sink.write_all(encoded) fails.
WriteRequestErr ==
    /\ pc = "WritingRequest"
    /\ InnerDone("io")
    /\ UNCHANGED <<reqVars, backendVars, clientVars, exchVars>>

\* The buffer after a read of n bytes: server_source.consume + buffer.put.
Accumulate(n) == buffer \o SubSeq(backendOut, 1, n)

ChunkSizes == 1..Min(MaxChunk, Len(backendOut))

\* Lines 130-141: a chunk is read and the response is still partial.
ReadPartial ==
    /\ pc = "ReadingResponse"
    /\ \E n \in ChunkSizes :
          /\ DecodeResponse(Accumulate(n)).status = "partial"
          /\ buffer' = DecodeResponse(Accumulate(n)).buffer
          /\ backendOut' = SubSeq(backendOut, n + 1, Len(backendOut))
          /\ backendRead' = backendRead \o SubSeq(backendOut, 1, n)
    /\ UNCHANGED <<pc, cfgVars, workers, raceVars, gracefulResult, reqVars, backendOpened,
                   backendIn, reportedVersion, clientVars, exchVars, besidesProxy>>

\* Lines 138-140: decode_response fails on the accumulated bytes.
ReadDecodeErr ==
    /\ pc = "ReadingResponse"
    /\ \E n \in ChunkSizes :
          /\ DecodeResponse(Accumulate(n)).status = "error"
          /\ buffer' = <<>>
          /\ backendOut' = SubSeq(backendOut, n + 1, Len(backendOut))
          /\ backendRead' = backendRead \o SubSeq(backendOut, 1, n)
    /\ InnerDone("decode")
    /\ UNCHANGED <<reqVars, backendOpened, backendIn, reportedVersion, clientVars,
                   exchVars>>

\* Mutant of RestoreVersion: the backend's version is passed on.
RestoreVersionSkipped(response, req) == response

\* The response handed to the client codec: the backend's, its version restored.
RestoreVersion(response, req) == [response EXCEPT !.version = OriginalVersion(req)]

\* Lines 142-151: the response is complete; its version is restored, it is sent
\* to the client codec, and the write of the trailing bytes begins.
ReadComplete ==
    /\ pc = "ReadingResponse"
    /\ \E n \in ChunkSizes, v \in BackendVersions :
          /\ DecodeResponse(Accumulate(n)).status = "complete"
          /\ buffer' = <<>>
          /\ backendOut' = SubSeq(backendOut, n + 1, Len(backendOut))
          /\ backendRead' = backendRead \o SubSeq(backendOut, 1, n)
          /\ reportedVersion' = <<v>>
          /\ clientResponse' = <<RestoreVersion([version |-> v], request[1])>>
          /\ chunk' = DecodeResponse(Accumulate(n)).tail
    /\ pc' = "WritingTail"
    /\ UNCHANGED <<cfgVars, workers, raceVars, gracefulResult, reqVars, backendOpened,
                   backendIn, clientSink, exchVars, besidesProxy>>

\* Line 149: respond.send_response fails once the response is complete.
SendResponseErr ==
    /\ pc = "ReadingResponse"
    /\ \E n \in ChunkSizes, v \in BackendVersions :
          /\ DecodeResponse(Accumulate(n)).status = "complete"
          /\ buffer' = <<>>
          /\ backendOut' = SubSeq(backendOut, n + 1, Len(backendOut))
          /\ backendRead' = backendRead \o SubSeq(backendOut, 1, n)
          /\ reportedVersion' = <<v>>
    /\ InnerDone("io")
    /\ UNCHANGED <<reqVars, backendOpened, backendIn, clientVars, exchVars>>

\* Mutant of ReadEof: the end of the stream is taken for the end of the headers
\* and a response is sent to the client.
ReadEofTakenForComplete ==
    /\ pc = "ReadingResponse"
    /\ backendOut = <<>>
    /\ clientResponse' = <<[version |-> OriginalVersion(request[1])]>>
    /\ chunk' = <<>>
    /\ pc' = "WritingTail"
    /\ UNCHANGED <<cfgVars, workers, raceVars, gracefulResult, reqVars, backendVars,
                   clientSink, exchVars, besidesProxy>>

\* Line 135: the backend has sent all it had and closes its stream before the
\* response is complete.
ReadEof ==
    /\ pc = "ReadingResponse"
    /\ backendOut = <<>>
    /\ InnerDone("unexpected_eof")
    /\ UNCHANGED <<reqVars, backendVars, clientVars, exchVars>>

\* Lines 130, 132: server_source.read() or consume() fails.
ReadErr ==
    /\ pc = "ReadingResponse"
    /\ InnerDone("io")
    /\ UNCHANGED <<reqVars, backendVars, clientVars, exchVars>>

\* Mutant of WriteTailOk: the trailing bytes are dropped at the handover.
WriteTailDropped ==
    /\ pc = "WritingTail"
    /\ pc' = "Exchanging"
    /\ listenIo' = "pending"
    /\ exch' = "pending"
    /\ UNCHANGED <<cfgVars, workers, raceVars, gracefulResult, reqVars, backendVars,
                   clientVars, besidesProxy>>

\* Lines 151-156 and 55-77: the trailing bytes are written to the client sink,
\* establish_tunnel returns the endpoints, the pipe is built, and try_join!
\* starts listen_io and pipe.exchange.
WriteTailOk ==
    /\ pc = "WritingTail"
    /\ clientSink' = clientSink \o chunk
    /\ chunk' = chunk
    /\ pc' = "Exchanging"
    /\ listenIo' = "pending"
    /\ exch' = "pending"
    /\ UNCHANGED <<cfgVars, workers, raceVars, gracefulResult, reqVars, backendVars,
                   clientResponse, besidesProxy>>

\* Line 151: client_sink.write_all(chunk) fails.
WriteTailErr ==
    /\ pc = "WritingTail"
    /\ InnerDone("io")
    /\ UNCHANGED <<reqVars, backendVars, clientVars, exchVars>>

\* Line 77: pipe.exchange copies the next bytes of the backend to the client sink.
ExchangeCopy ==
    /\ pc = "Exchanging"
    /\ exch = "pending"
    /\ \E n \in ChunkSizes :
          /\ clientSink' = clientSink \o SubSeq(backendOut, 1, n)
          /\ backendOut' = SubSeq(backendOut, n + 1, Len(backendOut))
          /\ backendRead' = backendRead \o SubSeq(backendOut, 1, n)
    /\ UNCHANGED <<pc, cfgVars, workers, raceVars, gracefulResult, reqVars, backendOpened,
                   backendIn, buffer, reportedVersion, clientResponse,
                   chunk, exchVars, besidesProxy>>

\* Lines 75-78: pipe.exchange completes with Ok; try_join! returns Ok once
\* listen_io has completed with Ok as well.
ExchangeOk ==
    /\ pc = "Exchanging"
    /\ exch = "pending"
    /\ exch' = "ok"
    /\ listenIo' = listenIo
    /\ IF listenIo = "eof"
       THEN InnerDone("ok")
       ELSE UNCHANGED <<pc, cfgVars, workers, raceVars, gracefulResult, besidesProxy>>
    /\ UNCHANGED <<reqVars, backendVars, clientVars>>

\* Lines 75-78: pipe.exchange fails with an I/O error; try_join! returns it.
ExchangeErr ==
    /\ pc = "Exchanging"
    /\ exch = "pending"
    /\ InnerDone("io")
    /\ UNCHANGED <<reqVars, backendVars, clientVars, exchVars>>

\* Line 77: the timeout given to pipe.exchange expires.
ExchangeTimeout ==
    /\ pc = "Exchanging"
    /\ exch = "pending"
    /\ InnerDone("timed_out")
    /\ UNCHANGED <<reqVars, backendVars, clientVars, exchVars>>

\* Lines 65, 70: codec.listen() reports a clean end of input; try_join! returns
\* Ok once pipe.exchange has completed with Ok as well.
ListenIoEof ==
    /\ pc = "Exchanging"
    /\ listenIo = "pending"
    /\ listenIo' = "eof"
    /\ exch' = exch
    /\ IF exch = "ok"
       THEN InnerDone("ok")
       ELSE UNCHANGED <<pc, cfgVars, workers, raceVars, gracefulResult, besidesProxy>>
    /\ UNCHANGED <<reqVars, backendVars, clientVars>>

\* Mutant of ListenIoRequest: a further request is treated like the end of input.
ListenIoRequestAccepted ==
    /\ pc = "Exchanging"
    /\ listenIo = "pending"
    /\ listenIo' = "request"
    /\ exch' = exch
    /\ IF exch = "ok"
       THEN InnerDone("ok")
       ELSE UNCHANGED <<pc, cfgVars, workers, raceVars, gracefulResult, besidesProxy>>
    /\ UNCHANGED <<reqVars, backendVars, clientVars>>

\* Lines 65-69: codec.listen() decodes a further request: "Got unexpected request
\* while processing previous"; try_join! returns the error.
ListenIoRequest ==
    /\ pc = "Exchanging"
    /\ listenIo = "pending"
    /\ listenIo' = "request"
    /\ exch' = exch
    /\ InnerDone("violation")
    /\ UNCHANGED <<reqVars, backendVars, clientVars>>

\* Lines 65, 71: codec.listen() fails.
ListenIoErr ==
    /\ pc = "Exchanging"
    /\ listenIo = "pending"
    /\ listenIo' = "err"
    /\ exch' = exch
    /\ InnerDone("io")
    /\ UNCHANGED <<reqVars, backendVars, clientVars>>

\* Lines 41-44: codec.graceful_shutdown() completes, with Ok or with an Err that
\* is logged and changes nothing else; listen() returns and drops the
\* completion guard.
GracefulShutdownDone ==
    /\ pc = "ShuttingDown"
    /\ gracefulResult' = "done"
    /\ pc' = "Returned"
    /\ workers' = workers - 1
    /\ UNCHANGED <<cfgVars, raceVars, reqVars, backendVars, clientVars, exchVars, besidesProxy>>

InitAuthIdle ==
    /\ store = [kind |-> "unused", clients |-> <<>>]
    /\ clock = <<>>
    /\ authSource = <<>>
    /\ authStatus = <<>>
    /\ authFresh = FALSE
    /\ authFirst = <<>>

InitSelectIdle ==
    /\ settings = [listen_protocols |-> {}, ping |-> <<>>, service_messenger |-> <<>>]
    /\ connAlpn = <<>>
    /\ connSni = <<>>
    /\ selected = <<>>
    /\ announced = <<>>

\* No connection but the one of the reverse proxy above.
InitCoordIdle ==
    /\ coordLock = 0
    /\ outstanding = 0
    /\ connPc = <<>>
    /\ connProtocol = <<>>
    /\ connGraceful = <<>>
    /\ guardDrops = <<>>

Init == InitProxy /\ InitAuthIdle /\ InitSelectIdle /\ InitCoordIdle

Next ==
    \/ ListenStart
    \/ ShutdownWins
    \/ EstablishTimeout
    \/ FirstListenRequest
    \/ FirstListenEof
    \/ FirstListenErr
    \/ ConnectErr
    \/ ConnectOk
    \/ ConnectPanic
    \/ WriteRequestOk
    \/ WriteRequestErr
    \/ ReadPartial
    \/ ReadDecodeErr
    \/ ReadComplete
    \/ SendResponseErr
    \/ ReadEof
    \/ ReadErr
    \/ WriteTailOk
    \/ WriteTailErr
    \/ ExchangeCopy
    \/ ExchangeOk
    \/ ExchangeErr
    \/ ExchangeTimeout
    \/ ListenIoEof
    \/ ListenIoRequest
    \/ ListenIoErr
    \/ GracefulShutdownDone

Spec == Init /\ [][Next]_vars

\* The timers fire: a tokio timeout that stays armed expires.  Whether the client
\* or the backend ever sends, closes or fails is theirs to decide, and so is
\* whether the shutdown notification is ever sent.
FairSpec ==
    /\ Spec
    /\ WF_vars(ListenStart)
    /\ WF_vars(EstablishTimeout)
    /\ WF_vars(ExchangeTimeout)

\* --------------------------------------------------- reverse proxy: claims

Terminated == pc \in {"Returned", "Panicked"}

\* C1: in every execution of listen(), whichever branch of the race completes
\* first and however it ended, for any inbound protocol, graceful_shutdown is
\* invoked exactly once, only after the race has resolved, and listen() returns
\* without escalating a failure (no panic).
C1_GracefulShutdownExactlyOnce ==
    /\ gracefulCalls <= 1
    /\ (gracefulCalls = 1) <=> (raceWinner # "none")
    /\ pc # "Panicked"
    /\ Terminated => gracefulCalls = 1

\* C2 as stated: a connection never stays in the establishment phase or in the
\* exchange phase forever, whatever the client and the backend do.
C2_NeverStuckInAPhase == (pc \in Racing) ~> (pc \notin Racing)

\* C2 as amended: the establishment phase always ends, and so does the raw
\* exchange (pipe.exchange); the timeouts see to that when nothing else does.
C2_TimeoutsBoundEstablishmentAndExchange ==
    /\ (pc \in Establishing) ~> (pc \notin Establishing)
    /\ (pc = "Exchanging" /\ exch = "pending") ~> ~(pc = "Exchanging" /\ exch = "pending")

\* C2 witness: the exchange timed out on a client that sent and closed nothing.
C2_Witness == innerResult = "timed_out" /\ exch = "pending" /\ listenIo = "pending"
              /\ pc = "Returned"

\* C3: once the tunnel is established, a further request decoded by the client
\* codec makes listen_inner fail and the connection close, whatever the state of
\* the raw exchange; listen_inner succeeds after establishment only when the
\* codec reported end of input and the exchange completed with success.
C3_FurtherRequestIsAnError ==
    /\ listenIo = "request" =>
          /\ innerResult = "violation"
          /\ raceWinner = "inner"
          /\ pc \in {"ShuttingDown", "Returned"}
    /\ (innerResult = "ok" /\ firstListen = "request") =>
          (listenIo = "eof" /\ exch = "ok")

\* C3 witness: the further request arrived after the exchange had succeeded.
C3_Witness == listenIo = "request" /\ exch = "ok" /\ pc = "Returned"

\* C4: when the first codec.listen() reports end of input, listen_inner returns
\* success and no backend connection was opened, nothing was written to the
\* backend, no response was sent, no raw exchange was started.
C4_NoTunnelIsANoOp ==
    firstListen = "eof" =>
        /\ innerResult = "ok"
        /\ raceWinner = "inner"
        /\ request = <<>>
        /\ ~backendOpened
        /\ backendIn = <<>>
        /\ clientResponse = <<>>
        /\ clientSink = <<>>
        /\ listenIo = "idle"
        /\ exch = "idle"

\* C4 witness: the client closed before any request and listen() returned.
C4_Witness == firstListen = "eof" /\ pc = "Returned" /\ innerResult = "ok"

ConnectRewriteCase ==
    /\ protocol = "Http3"
    /\ h3compat
    /\ request[1].method = "GET"
    /\ request[1].uri \in {"/", "/?q"}

C7_ResponseVersionIsRequestVersion ==
    clientResponse # <<>> => clientResponse[1].version = request[1].version

\* C7 witness: the backend answered an HTTP/3 client's request as HTTP/1.1.
C7_Witness ==
    /\ clientResponse # <<>>
    /\ request[1].version = "HTTP/3.0"
    /\ reportedVersion = <<"HTTP/1.1">>
    /\ backendIn[1].version = "HTTP/1.1"

\* The bytes of read that follow its header block.
Payload(read) ==
    IF FirstEnd(read, 1) = 0 THEN <<>>
    ELSE SubSeq(read, FirstEnd(read, 1) + 1, Len(read))

\* Something reached the client, or the raw exchange was started.
ClientTouched ==
    \/ clientResponse # <<>>
    \/ clientSink # <<>>
    \/ pc = "Exchanging"
    \/ listenIo # "idle"
    \/ exch # "idle"

\* C17: no response is sent to the client codec, no byte is written to the
\* client sink and the exchange is not entered before the bytes read from the
\* backend hold a complete header block; when the stream ends or decoding fails
\* before that, establish_tunnel has failed with nothing sent to the client.
C17_NothingSentBeforeCompleteHeaders ==
    /\ ClientTouched => DecodeResponse(backendRead).status = "complete"
    /\ (innerResult \in {"unexpected_eof", "decode"}) =>
          /\ ~ClientTouched
          /\ DecodeResponse(backendRead).status # "complete"
          /\ pc \in {"ShuttingDown", "Returned"}

\* The backend closed its stream after part of a header block.
C17_Witness ==
    /\ innerResult = "unexpected_eof"
    /\ backendRead # <<>>
    /\ backendOut = <<>>
    /\ DecodeResponse(backendRead).status = "partial"
    /\ ~ClientTouched

\* C18: what the client sink has received is exactly what was read from the
\* backend behind the header block, in order: the bytes read with the header
\* block go first, in one piece, and the bytes the exchange copies follow. Up
\* to the handover every byte read is in the buffer or, decoded, in the chunk.
C18_ClientSinkIsBackendPayload ==
    /\ (pc = "ReadingResponse") => buffer = backendRead
    /\ (pc = "WritingTail") => (clientSink = <<>> /\ chunk = Payload(backendRead))
    /\ (listenIo # "idle") =>
          /\ clientSink = Payload(backendRead)
          /\ chunk = SubSeq(clientSink, 1, Len(chunk))

\* Payload arrived with the header block and more of it through the exchange.
C18_Witness ==
    /\ pc = "Exchanging"
    /\ chunk # <<>>
    /\ Len(clientSink) > Len(chunk)
    /\ clientSink = Payload(backendRead)

\* C19: once the shutdown branch of select! has completed, no step of
\* establish_tunnel or of the exchange is taken: request, backend and client
\* side stay as they are and what follows is the graceful shutdown.
C19_ShutdownAbandonsProcessing ==
    [][(raceWinner' = "shutdown") =>
          /\ UNCHANGED <<reqVars, backendVars, clientVars, exchVars>>
          /\ pc' \in {"ShuttingDown", "Returned"}
          /\ gracefulCalls' = 1]_vars

\* Shutdown was notified while the response of the backend was awaited; the
\* connection returned with the rest of the backend's bytes unread.
C19_Witness ==
    /\ raceWinner = "shutdown"
    /\ pc = "Returned"
    /\ backendIn # <<>>
    /\ backendOut # <<>>
    /\ clientResponse = <<>>

\* ============================ authentication ==============================

\* Most client records the credential file holds.
MaxRecords == 2
\* Last second of the clock.
MaxTime == 2

\* Texts are byte sequences.
TextA == <<97>>                 \* "a"
TextBB == <<98, 98>>            \* "bb"
TextP == <<112>>                \* "p"
TextQ == <<113>>                \* "q"
Colon == <<58>>                 \* ":"

\* The base64 standard alphabet: the ASCII code of the character of a sextet.
Base64Char(sextet) ==
    IF sextet < 26 THEN 65 + sextet
    ELSE IF sextet < 52 THEN 97 + (sextet - 26)
    ELSE IF sextet < 62 THEN 48 + (sextet - 52)
    ELSE IF sextet = 62 THEN 43
    ELSE 47

Base64Pad == 61                 \* "="

\* base64::engine::general_purpose::STANDARD.encode: three bytes give four
\* characters, a last group of one or two bytes is padded with "=".
RECURSIVE Base64Encode(_)
Base64Encode(bytes) ==
    IF Len(bytes) = 0 THEN <<>>
    ELSE IF Len(bytes) = 1 THEN
        LET n == bytes[1] * 65536
        IN  <<Base64Char(n \div 262144), Base64Char((n \div 4096) % 64),
              Base64Pad, Base64Pad>>
    ELSE IF Len(bytes) = 2 THEN
        LET n == bytes[1] * 65536 + bytes[2] * 256
        IN  <<Base64Char(n \div 262144), Base64Char((n \div 4096) % 64),
              Base64Char((n \div 64) % 64), Base64Pad>>
    ELSE
        LET n == bytes[1] * 65536 + bytes[2] * 256 + bytes[3]
        IN  <<Base64Char(n \div 262144), Base64Char((n \div 4096) % 64),
              Base64Char((n \div 64) % 64), Base64Char(n % 64)>>
            \o Base64Encode(SubSeq(bytes, 4, Len(bytes)))

\* format!("{}:{}", username, password)
Credentials(username, password) == username \o Colon \o password

RECURSIVE StripPad(_)
StripPad(text) ==
    IF text # <<>> /\ text[Len(text)] = Base64Pad
    THEN StripPad(SubSeq(text, 1, Len(text) - 1)) ELSE text

\* authentication::Source
Sni(text) == [kind |-> "Sni", text |-> text]
ProxyBasic(text) == [kind |-> "ProxyBasic", text |-> text]

\* The claims presented: names, encoded credentials right and wrong, an encoding
\* without its padding, credentials not encoded at all.
Sources ==
    {Sni(TextA), Sni(TextBB)} \cup
    {ProxyBasic(t) : t \in {Base64Encode(Credentials(TextA, TextP)),
                            Base64Encode(Credentials(TextBB, TextP)),
                            Base64Encode(Credentials(TextA, TextQ)),
                            StripPad(Base64Encode(Credentials(TextBB, TextP))),
                            Credentials(TextA, TextP)}}

\* A [[client]] table: each field as Item::as_str / Item::as_integer sees it.
\* A record lacking a field is skipped before its valid_till is looked at
\* (lines 37-42 precede lines 44-54), so such records are drawn without one.
ClientRecords ==
    {r \in [username   : {<<>>, <<TextA>>, <<TextBB>>},
            password   : {<<>>, <<TextP>>},
            valid_till : {<<>>, <<-1>>, <<1>>}] :
        (r.username = <<>> \/ r.password = <<>>) => r.valid_till = <<>>}

\* The credential file: unreadable, not a TOML document, or a document whose
\* "client" item is an array of tables (clients = <<list>>) or is not (<<>>).
Unreadable == [kind |-> "unreadable", clients |-> <<>>]
Unparsable == [kind |-> "unparsable", clients |-> <<>>]
Document(clients) == [kind |-> "document", clients |-> clients]

\* u64::try_from(x).ok() on the integer of valid_till.
U64TryFrom(x) == IF x >= 0 THEN <<x>> ELSE <<>>

\* Lines 44-47: valid_till as the expiry check sees it.
ValidTill(client) ==
    IF client.valid_till = <<>> THEN <<>> ELSE U64TryFrom(client.valid_till[1])

\* Mutant of Expired: the comparison is the other way round, so that a record
\* becomes usable only once its valid_till has passed.
ExpiredUntilDue(client, now) ==
    /\ ValidTill(client) # <<>>
    /\ now # <<>>
    /\ now[1] <= ValidTill(client)[1]

\* Lines 44-54: the record is skipped as expired.
Expired(client, now) ==
    /\ ValidTill(client) # <<>>
    /\ now # <<>>
    /\ now[1] > ValidTill(client)[1]

\* Lines 40-42: the record is skipped for missing fields.
MissingFields(client) == client.username = <<>> \/ client.password = <<>>

\* Mutant of Matches: the kind of the claim is not looked at.
MatchesIgnoringKind(client, source) ==
    Base64Encode(Credentials(client.username[1], client.password[1])) = source.text

\* Lines 56-68: the record matches the claim.
Matches(client, source) ==
    IF source.kind = "ProxyBasic"
    THEN Base64Encode(Credentials(client.username[1], client.password[1])) = source.text
    ELSE source.text = client.username[1]

\* Lines 36-71: the loop over the client records, in file order.
RECURSIVE AnyValidClient(_, _, _)
AnyValidClient(clients, source, now) ==
    IF clients = <<>> THEN FALSE
    ELSE IF MissingFields(Head(clients)) THEN AnyValidClient(Tail(clients), source, now)
    ELSE IF Expired(Head(clients), now) THEN AnyValidClient(Tail(clients), source, now)
    ELSE IF Matches(Head(clients), source) THEN TRUE
    ELSE AnyValidClient(Tail(clients), source, now)

\* FileBasedAuthenticator::is_valid_client
IsValidClient(doc, source, now) ==
    IF doc.clients = <<>> THEN FALSE
    ELSE AnyValidClient(doc.clients[1], source, now)

\* Mutant of Authenticate: a file that cannot be read or parsed lets everyone in.
AuthenticateFailingOpen(file, source, now) ==
    IF file.kind = "unreadable" THEN "Pass"
    ELSE IF file.kind = "unparsable" THEN "Pass"
    ELSE IF IsValidClient(file, source, now) THEN "Pass"
    ELSE "Reject"

\* FileBasedAuthenticator::authenticate
Authenticate(file, source, now) ==
    IF file.kind = "unreadable" THEN "Reject"
    ELSE IF file.kind = "unparsable" THEN "Reject"
    ELSE IF IsValidClient(file, source, now) THEN "Pass"
    ELSE "Reject"

InitProxyIdle ==
    /\ pc = "Unused"
    /\ protocol = "Http1"
    /\ h3compat = FALSE
    /\ workers = 0
    /\ raceWinner = "none"
    /\ waitResult = "none"
    /\ innerResult = "pending"
    /\ gracefulCalls = 0
    /\ gracefulResult = "none"
    /\ firstListen = "pending"
    /\ request = <<>>
    /\ backendOpened = FALSE
    /\ backendIn = <<>>
    /\ backendOut = <<>>
    /\ backendRead = <<>>
    /\ buffer = <<>>
    /\ reportedVersion = <<>>
    /\ clientResponse = <<>>
    /\ chunk = <<>>
    /\ clientSink = <<>>
    /\ listenIo = "idle"
    /\ exch = "idle"

\* FileBasedAuthenticator::new keeps the path only: the file and the clock are
\* whatever the system holds.
InitAuth ==
    /\ store \in {Unreadable, Unparsable, Document(<<>>), Document(<< <<>> >>)}
    /\ clock \in {<<>>, <<0>>}
    /\ authSource = <<>>
    /\ authStatus = <<>>
    /\ authFresh = FALSE
    /\ authFirst = <<>>

\* One call of authenticate: the file is read and parsed, the clock is read,
\* the records are searched.
AuthenticateCall ==
    /\ \E source \in Sources :
          /\ authSource' = <<source>>
          /\ authStatus' = <<Authenticate(store, source, clock)>>
          /\ authFirst' = IF authFirst # <<>> /\ authSource = <<source>>
                           THEN authFirst
                           ELSE <<Authenticate(store, source, clock)>>
    /\ authFresh' = TRUE
    /\ UNCHANGED <<store, clock, besidesAuth>>

\* A second passes.
Tick ==
    /\ clock # <<>>
    /\ clock[1] < MaxTime
    /\ clock' = <<clock[1] + 1>>
    /\ authFresh' = FALSE
    /\ UNCHANGED <<store, authSource, authStatus, authFirst, besidesAuth>>

\* The file is edited: a client record is added at its end.
StoreAppend ==
    /\ store.kind = "document"
    /\ store.clients # <<>>
    /\ Len(store.clients[1]) < MaxRecords
    /\ \E r \in ClientRecords : store' = Document(<<Append(store.clients[1], r)>>)
    /\ authFresh' = FALSE
    /\ authFirst' = <<>>
    /\ UNCHANGED <<clock, authSource, authStatus, besidesAuth>>

\* The file is replaced: by one that cannot be read or parsed, or by a document
\* with no client list or an empty one.
StoreReplace ==
    /\ store' \in {Unreadable, Unparsable, Document(<<>>), Document(<< <<>> >>)}
    /\ store' # store
    /\ authFresh' = FALSE
    /\ authFirst' = <<>>
    /\ UNCHANGED <<clock, authSource, authStatus, besidesAuth>>

NextAuth ==
    \/ AuthenticateCall
    \/ Tick
    \/ StoreAppend
    \/ StoreReplace

InitAuthSpec == InitProxyIdle /\ InitAuth /\ InitSelectIdle /\ InitCoordIdle

SpecAuth == InitAuthSpec /\ [][NextAuth]_vars

\* ------------------------------------------------- authentication: claims

\* The client records of the file, none when it holds no list of them.
Clients(file) == IF file.clients = <<>> THEN <<>> ELSE file.clients[1]

\* The status on display is that of a call on the file and clock as they are.
Answered(kind) ==
    /\ authFresh
    /\ store.kind = "document"
    /\ authSource[1].kind = kind

\* valid_till is present and lies before the current time, the clock being
\* obtainable.
Lapsed(client, now) ==
    /\ client.valid_till # <<>>
    /\ now # <<>>
    /\ client.valid_till[1] < now[1]

\* The record carries the credentials the ProxyBasic claim encodes.
EncodesTo(client, text) ==
    /\ client.username # <<>>
    /\ client.password # <<>>
    /\ Base64Encode(client.username[1] \o <<58>> \o client.password[1]) = text

\* C8: on a readable, parsable file a ProxyBasic(s) claim passes exactly when
\* some record that has not expired encodes to s, wherever it stands in the file.
C8_ProxyBasicPassIffLiveRecordEncodes ==
    Answered("ProxyBasic") =>
        (authStatus = <<"Pass">>) <=>
            \E i \in 1..Len(Clients(store)) :
                /\ EncodesTo(Clients(store)[i], authSource[1].text)
                /\ ~Lapsed(Clients(store)[i], clock)

\* valid_till is a non-negative integer below the obtainable current time: the
\* records the expiry check of the code leaves out.
LapsedSinceEpoch(client, now) ==
    /\ Lapsed(client, now)
    /\ client.valid_till[1] >= 0

Named(client) ==
    IF authSource[1].kind = "Sni"
    THEN client.username = <<authSource[1].text>> /\ client.password # <<>>
    ELSE EncodesTo(client, authSource[1].text)

\* C10: with the clock obtainable, a pass never rests on a record whose
\* valid_till lies before the current time, negative values included; a
\* matching record without valid_till passes at every time, and so does one
\* whose valid_till the current time has not exceeded.
C10_LapsedRecordsNeverPass ==
    (authFresh /\ store.kind = "document" /\ clock # <<>>) =>
        /\ (authStatus = <<"Pass">>) =>
              \E i \in 1..Len(Clients(store)) :
                  Named(Clients(store)[i]) /\ ~Lapsed(Clients(store)[i], clock)
        /\ (\E i \in 1..Len(Clients(store)) :
              /\ Named(Clients(store)[i])
              /\ \/ Clients(store)[i].valid_till = <<>>
                 \/ clock[1] <= Clients(store)[i].valid_till[1])
           => authStatus = <<"Pass">>

\* C11 as stated: while the file is not edited, every call made with the same
\* claim returns the Status of the first such call, however much time has
\* passed between the calls.
C11_SameStatusHoweverMuchTimePasses ==
    (authFresh /\ authFirst # <<>>) => authStatus = authFirst

\* C11 amended: while the file is not edited, a call made with the same claim
\* returns the Status of the first such call, except that a first Pass may have
\* become Reject once the clock has advanced; a first Reject never becomes Pass.
C11_StatusChangesOnlyByExpiry ==
    (authFresh /\ authFirst # <<>>) =>
        \/ authStatus = authFirst
        \/ authFirst = <<"Pass">> /\ authStatus = <<"Reject">> /\ clock # <<>> /\ clock[1] > 0

\* The file was not edited, the clock advanced, and the claim that passed first
\* is now rejected.
C11_Witness ==
    /\ authFresh
    /\ authFirst = <<"Pass">>
    /\ authStatus = <<"Reject">>
    /\ store.kind = "document"

\* The file gives authenticate no client list to search: it cannot be read, it
\* cannot be parsed, or it has no client list.
NoClientList(file) ==
    \/ file.kind = "unreadable"
    \/ file.kind = "unparsable"
    \/ file.kind = "document" /\ file.clients = <<>>

\* C12: a store that cannot be read, cannot be parsed or has no client list
\* rejects every claim, of either kind, and so does a well-formed store none of
\* whose records matches the claim: the Status is the same Reject.
C12_UnusableStoreRejectsLikeNoMatch ==
    authFresh =>
        /\ NoClientList(store) => authStatus = <<"Reject">>
        /\ (store.kind = "document" /\ store.clients # <<>> /\
            \A i \in 1..Len(Clients(store)) : ~Named(Clients(store)[i]))
           => authStatus = <<"Reject">>

\* A ProxyBasic claim was answered on a file that cannot be parsed.
C12_Witness ==
    /\ authFresh
    /\ store = Unparsable
    /\ authSource[1].kind = "ProxyBasic"
    /\ authStatus = <<"Reject">>

\* ========================== protocol selector =============================

\* net_utils: the wire identifiers, three different texts.
HTTP1_ALPN == "http/1.1"
HTTP2_ALPN == "h2"
HTTP3_ALPN == "h3"

\* What the TLS layer may hand over as ALPN: nothing, an identifier the
\* selector knows, one it does not know, or the empty text.
Alpns == {<<>>, <<HTTP1_ALPN>>, <<HTTP2_ALPN>>, <<HTTP3_ALPN>>, <<"spdy/3">>, <<"">>}

Hostnames == {"a.example", "b.example"}
Snis == Hostnames \cup {"c.example"}

\* ListenProtocolSettings, by variant.
ListenProtocols == {"Http1", "Http2", "Quic"}

\* Settings as far as select() reads them; a hostname is an Option.
AllSettings ==
    [listen_protocols  : SUBSET ListenProtocols,
     ping              : {<<>>} \cup {<<h>> : h \in Hostnames},
     service_messenger : {<<>>} \cup {<<h>> : h \in Hostnames}]

Tunnel(v) == [class |-> "Tunnel", version |-> v]
Ping(v) == [class |-> "Ping", version |-> v]
ServiceMessenger(v) == [class |-> "ServiceMessenger", version |-> v]

\* enum Protocol: there is no ServiceMessenger(Http2).
ProtocolVariants ==
    {Tunnel(v) : v \in Protocols} \cup {Ping(v) : v \in Protocols} \cup
    {ServiceMessenger(v) : v \in {"Http1", "Http3"}}

Ok(p) == [ok |-> TRUE, protocol |-> p]
Err(msg) == [ok |-> FALSE, error |-> msg]

\* Mutant of AsAlpn: the Ping rows of the table all give the HTTP/1.1 identifier.
AsAlpnPingAlwaysHttp1(p) ==
    CASE p.class = "Ping" -> HTTP1_ALPN
      [] p.version = "Http1" -> HTTP1_ALPN
      [] p.version = "Http2" -> HTTP2_ALPN
      [] p.version = "Http3" -> HTTP3_ALPN

\* Protocol::as_alpn
AsAlpn(p) ==
    CASE p = Tunnel("Http1") -> HTTP1_ALPN
      [] p = Tunnel("Http2") -> HTTP2_ALPN
      [] p = Tunnel("Http3") -> HTTP3_ALPN
      [] p = Ping("Http1") -> HTTP1_ALPN
      [] p = Ping("Http2") -> HTTP2_ALPN
      [] p = Ping("Http3") -> HTTP3_ALPN
      [] p = ServiceMessenger("Http1") -> HTTP1_ALPN
      [] p = ServiceMessenger("Http3") -> HTTP3_ALPN

\* Option::unwrap_or and Option::unwrap_or_default on Option<&str>.
UnwrapOr(opt, default) == IF opt = <<>> THEN default ELSE opt[1]
UnwrapOrDefault(opt) == UnwrapOr(opt, "")

\* Lines 61-67: the match of the service-messenger branch.
SelectServiceMessenger(alpn) ==
    CASE UnwrapOrDefault(alpn) = HTTP1_ALPN -> Ok(ServiceMessenger("Http1"))
      [] UnwrapOrDefault(alpn) = HTTP3_ALPN -> Ok(ServiceMessenger("Http3"))
      [] OTHER -> Err("Unexpected ALPN on service messenger connection")

\* Mutant of SelectPing: an absent ALPN is taken for the HTTP/1.1 identifier.
SelectPingDefaultingToHttp1(alpn) ==
    CASE UnwrapOr(alpn, HTTP1_ALPN) = HTTP1_ALPN -> Ok(Ping("Http1"))
      [] UnwrapOr(alpn, HTTP1_ALPN) = HTTP2_ALPN -> Ok(Ping("Http2"))
      [] UnwrapOr(alpn, HTTP1_ALPN) = HTTP3_ALPN -> Ok(Ping("Http3"))
      [] OTHER -> Err("Unexpected ALPN on pinging connection")

\* Lines 69-76: the match of the ping branch.
SelectPing(alpn) ==
    CASE UnwrapOrDefault(alpn) = HTTP1_ALPN -> Ok(Ping("Http1"))
      [] UnwrapOrDefault(alpn) = HTTP2_ALPN -> Ok(Ping("Http2"))
      [] UnwrapOrDefault(alpn) = HTTP3_ALPN -> Ok(Ping("Http3"))
      [] OTHER -> Err("Unexpected ALPN on pinging connection")

\* Lines 78-85: the match of the tunnel branch.
SelectTunnel(alpn) ==
    CASE UnwrapOr(alpn, HTTP1_ALPN) = HTTP1_ALPN -> Ok(Tunnel("Http1"))
      [] UnwrapOr(alpn, HTTP1_ALPN) = HTTP2_ALPN -> Ok(Tunnel("Http2"))
      [] UnwrapOr(alpn, HTTP1_ALPN) = HTTP3_ALPN -> Ok(Tunnel("Http3"))
      [] OTHER -> Err("Unexpected ALPN on tunnel connection")

\* Mutant of ListenedTo: every tunnel protocol counts as listened to.
ListenedToAlways(cfg, x) == TRUE

\* Lines 90-96: some listen protocol is the one of tunnel protocol x.
ListenedTo(cfg, x) ==
    \E i \in cfg.listen_protocols :
        \/ i = "Http1" /\ x = "Http1"
        \/ i = "Http2" /\ x = "Http2"
        \/ i = "Quic" /\ x = "Http3"

\* Mutant of Classify: the ping hostname is looked at first.
ClassifyPingFirst(cfg, alpn, sni) ==
    IF <<sni>> = cfg.ping THEN SelectPing(alpn)
    ELSE IF <<sni>> = cfg.service_messenger THEN SelectServiceMessenger(alpn)
    ELSE SelectTunnel(alpn)

\* Lines 60-86: `proto`, the branch being chosen by the SNI alone.
Classify(cfg, alpn, sni) ==
    IF <<sni>> = cfg.service_messenger THEN SelectServiceMessenger(alpn)
    ELSE IF <<sni>> = cfg.ping THEN SelectPing(alpn)
    ELSE SelectTunnel(alpn)

\* select
Select(cfg, alpn, sni) ==
    LET proto == Classify(cfg, alpn, sni) IN
    IF ~proto.ok THEN proto
    ELSE IF proto.protocol.class = "Tunnel"
         THEN IF ListenedTo(cfg, proto.protocol.version)
              THEN Ok(proto.protocol)
              ELSE Err("Selected protocol is not being listened to")
         ELSE Ok(proto.protocol)

\* The process holds one Settings value, whatever the configuration file gave.
InitSelect ==
    /\ settings \in AllSettings
    /\ connAlpn = <<>>
    /\ connSni = <<>>
    /\ selected = <<>>
    /\ announced = <<>>

\* A connection arrives with its ALPN and SNI and is classified.
SelectCall ==
    /\ \E alpn \in Alpns, sni \in Snis :
          /\ connAlpn' = alpn
          /\ connSni' = <<sni>>
          /\ selected' = <<Select(settings, alpn, sni)>>
    /\ announced' = <<>>
    /\ UNCHANGED <<settings, besidesSelect>>

\* This side announces the protocol of the classified connection.
AsAlpnCall ==
    /\ selected # <<>>
    /\ selected[1].ok
    /\ announced' = <<AsAlpn(selected[1].protocol)>>
    /\ UNCHANGED <<settings, connAlpn, connSni, selected, besidesSelect>>

NextSelect ==
    \/ SelectCall
    \/ AsAlpnCall

InitSelectSpec == InitProxyIdle /\ InitAuthIdle /\ InitSelect /\ InitCoordIdle

SpecSelect == InitSelectSpec /\ [][NextSelect]_vars

\* ------------------------------------------------------ selector: claims

\* The wire identifier of an HTTP version, and the listen protocol that serves it.
IdentifierOf(v) ==
    CASE v = "Http1" -> "http/1.1"
      [] v = "Http2" -> "h2"
      [] v = "Http3" -> "h3"

ListenerFor(v) ==
    CASE v = "Http1" -> "Http1"
      [] v = "Http2" -> "Http2"
      [] v = "Http3" -> "Quic"

\* The ALPN of the classified connection, the HTTP/1.1 identifier when absent.
AlpnOrHttp1 == IF connAlpn = <<>> THEN "http/1.1" ELSE connAlpn[1]

Classified == selected # <<>>
OnServiceMessengerPath == Classified /\ connSni = settings.service_messenger
OnPingPath == Classified /\ connSni = settings.ping /\ connSni # settings.service_messenger
OnTunnelPath == Classified /\ connSni # settings.ping /\ connSni # settings.service_messenger

\* C13: on the tunnel path select returns Ok(Tunnel(v)) exactly when the ALPN
\* (the HTTP/1.1 identifier when absent) is the identifier of v and the listen
\* protocol serving v is configured; in every other case it returns an error,
\* a recognized ALPN without its listener included.
C13_TunnelIffAlpnAndListener ==
    OnTunnelPath =>
        /\ \A v \in Protocols :
              (selected[1] = Ok(Tunnel(v))) <=>
                  /\ AlpnOrHttp1 = IdentifierOf(v)
                  /\ ListenerFor(v) \in settings.listen_protocols
        /\ selected[1].ok => \E v \in Protocols : selected[1] = Ok(Tunnel(v))

\* The HTTP/2 identifier arrived on the tunnel path of a gateway that listens,
\* but not for HTTP/2: an error.
C13_Witness ==
    /\ OnTunnelPath
    /\ connAlpn = <<"h2">>
    /\ settings.listen_protocols = {"Http1", "Quic"}
    /\ ~selected[1].ok

\* C14: on the ping path select returns Ping(v) for the identifier of v,
\* whatever the listen protocols are, and an error for an absent ALPN or any
\* other one: no default is assumed.
C14_PingNeedsAlpnNotListener ==
    OnPingPath =>
        /\ \A v \in Protocols :
              (connAlpn = <<IdentifierOf(v)>>) => selected[1] = Ok(Ping(v))
        /\ (connAlpn \notin {<<IdentifierOf(v)>> : v \in Protocols}) => ~selected[1].ok

\* Ping(Http2) was selected although nothing is listened to.
C14_Witness ==
    /\ OnPingPath
    /\ settings.listen_protocols = {}
    /\ selected[1] = Ok(Ping("Http2"))

\* C15: the SNI picks the rule and the rule alone decides. With the SNI equal
\* to the service-messenger hostname the result is ServiceMessenger(Http1) or
\* ServiceMessenger(Http3) for these two identifiers and an error for anything
\* else, also when the ping hostname is the same; with the SNI equal to the ping
\* hostname the result is never a Tunnel.
C15_SniDecidesTheRule ==
    /\ OnServiceMessengerPath =>
          /\ (connAlpn = <<"http/1.1">>) => selected[1] = Ok(ServiceMessenger("Http1"))
          /\ (connAlpn = <<"h3">>) => selected[1] = Ok(ServiceMessenger("Http3"))
          /\ (connAlpn \notin {<<"http/1.1">>, <<"h3">>}) => ~selected[1].ok
    /\ (OnPingPath /\ selected[1].ok) => selected[1].protocol.class = "Ping"

\* Both hostnames are the SNI and the ALPN is the HTTP/2 identifier: an error,
\* although the ping rule would have accepted it.
C15_Witness ==
    /\ OnServiceMessengerPath
    /\ settings.ping = settings.service_messenger
    /\ connAlpn = <<"h2">>
    /\ "Http2" \in settings.listen_protocols
    /\ ~selected[1].ok

\* C16: as_alpn of a selected Protocol is the ALPN select was given, the
\* HTTP/1.1 identifier when none was given; and every Protocol variant is what
\* select returns for its own as_alpn under some settings and SNI.
C16_AsAlpnInvertsSelect ==
    /\ (Classified /\ announced # <<>>) => announced[1] = AlpnOrHttp1
    /\ \A p \in ProtocolVariants :
          \E cfg \in AllSettings, sni \in Snis : Select(cfg, <<AsAlpn(p)>>, sni) = Ok(p)

\* A connection without ALPN was selected and announces the HTTP/1.1 identifier.
C16_Witness ==
    /\ Classified
    /\ connAlpn = <<>>
    /\ selected[1].ok
    /\ announced = <<"http/1.1">>

\* ========================= shutdown coordinator ===========================

\* Connections handled at the same time, each by its own task running listen().
MaxConns == 2

Conns == 1..MaxConns

\* Where listen() of a connection stands: spawned; holding the coordinator's
\* lock; holding it with handler and guard taken; in select!; in
\* codec.graceful_shutdown(); returned; unwound by a panic.
ConnPcs == {"Spawned", "Locked", "Registered", "Racing", "ShuttingDown", "Returned",
            "Panicked"}

InitCoord ==
    /\ coordLock = 0
    /\ outstanding = 0
    /\ connPc = [c \in Conns |-> "Spawned"]
    /\ connProtocol \in [Conns -> Protocols]
    /\ connGraceful = [c \in Conns |-> 0]
    /\ guardDrops = [c \in Conns |-> 0]

\* Line 20: context.shutdown.lock().
CoordLock(c) ==
    /\ connPc[c] = "Spawned"
    /\ coordLock = 0
    /\ coordLock' = c
    /\ connPc' = [connPc EXCEPT ![c] = "Locked"]
    /\ UNCHANGED <<outstanding, connProtocol, connGraceful, guardDrops, besidesCoord>>

\* Line 21: notification_handler() and completion_guard(), the lock being held;
\* a guard is counted from its creation to its drop.
CoordRegister(c) ==
    /\ connPc[c] = "Locked"
    /\ outstanding' = outstanding + 1
    /\ connPc' = [connPc EXCEPT ![c] = "Registered"]
    /\ UNCHANGED <<coordLock, connProtocol, connGraceful, guardDrops, besidesCoord>>

\* Lines 22-24: the MutexGuard goes out of scope and select! starts.
CoordUnlock(c) ==
    /\ connPc[c] = "Registered"
    /\ coordLock' = 0
    /\ connPc' = [connPc EXCEPT ![c] = "Racing"]
    /\ UNCHANGED <<outstanding, connProtocol, connGraceful, guardDrops, besidesCoord>>

\* Lines 25-39: a branch of select! completes, shutdown_notification.wait() or
\* listen_inner() with any result, and codec.graceful_shutdown() is invoked.
ConnRaceResolved(c) ==
    /\ connPc[c] = "Racing"
    /\ connGraceful' = [connGraceful EXCEPT ![c] = @ + 1]
    /\ connPc' = [connPc EXCEPT ![c] = "ShuttingDown"]
    /\ UNCHANGED <<coordLock, outstanding, connProtocol, guardDrops, besidesCoord>>

\* establish_tunnel, line 108: unreachable!() for an Http2 codec once the backend
\* is connected; listen() unwinds and its locals are dropped, the guard among
\* them.
ConnPanic(c) ==
    /\ connPc[c] = "Racing"
    /\ connProtocol[c] = "Http2"
    /\ outstanding' = outstanding - 1
    /\ guardDrops' = [guardDrops EXCEPT ![c] = @ + 1]
    /\ connPc' = [connPc EXCEPT ![c] = "Panicked"]
    /\ UNCHANGED <<coordLock, connProtocol, connGraceful, besidesCoord>>

\* Lines 41-44: codec.graceful_shutdown() completes, listen() returns and
\* _shutdown_completion is dropped.
ConnGracefulShutdownDone(c) ==
    /\ connPc[c] = "ShuttingDown"
    /\ outstanding' = outstanding - 1
    /\ guardDrops' = [guardDrops EXCEPT ![c] = @ + 1]
    /\ connPc' = [connPc EXCEPT ![c] = "Returned"]
    /\ UNCHANGED <<coordLock, connProtocol, connGraceful, besidesCoord>>

NextCoord ==
    \E c \in Conns :
        \/ CoordLock(c)
        \/ CoordRegister(c)
        \/ CoordUnlock(c)
        \/ ConnRaceResolved(c)
        \/ ConnPanic(c)
        \/ ConnGracefulShutdownDone(c)

InitCoordSpec == InitProxyIdle /\ InitAuthIdle /\ InitSelectIdle /\ InitCoord

SpecCoord == InitCoordSpec /\ [][NextCoord]_vars

\* ------------------------------------------------- coordinator: claims

\* In request processing or in its graceful shutdown.
Busy(c) == connPc[c] \in {"Racing", "ShuttingDown"}

Exited(c) == connPc[c] \in {"Returned", "Panicked"}

\* The guard count goes with the connections: it counts those registered and
\* not yet exited, is positive while one of them is busy, and is zero once all
\* have exited; every guard is dropped once, when its listen() exits.
GuardCountTracksConnections ==
    /\ outstanding = Cardinality({c \in Conns : connPc[c] \in {"Registered", "Racing",
                                                               "ShuttingDown"}})
    /\ (\E c \in Conns : Busy(c)) => outstanding > 0
    /\ (\A c \in Conns : Exited(c)) => outstanding = 0
    /\ \A c \in Conns : guardDrops[c] = (IF Exited(c) THEN 1 ELSE 0)
    /\ \A c \in Conns : connPc[c] = "Registered" => coordLock = c

\* C20: every connection is registered with the coordinator before it starts
\* processing, its guard is dropped exactly once when its listen() exits and
\* not before its graceful shutdown was attempted, and so the count is positive
\* while a connection is busy and zero once all have exited.
C20_GuardHeldThroughGracefulShutdown ==
    /\ GuardCountTracksConnections
    /\ \A c \in Conns : guardDrops[c] > 0 => connGraceful[c] = 1

====
